---- MODULE Spec2Model ----
(***************************************************************************)
(* The Sinkhorn divergence of ott/core/sinkhorn_divergence.py and the      *)
(* optional-dependency guards of ott/tools/plot.py, as state machines.     *)
(*                                                                         *)
(* Python's None and optional values: None is the empty tuple <<>> and a   *)
(* present value v is <<v>>, so that "is None" is a comparison TLC can     *)
(* always evaluate.                                                        *)
(*                                                                         *)
(* Reals: costs live on the grid of even integers, so that half of a sum   *)
(* of two costs is exact, as 0.5 * x is exact in binary floating point.    *)
(***************************************************************************)
EXTENDS Integers, Sequences, FiniteSets

\* ---------------------------------------------------------------- bounds
MaxIterations == 2
MaxInner == 2
MaxPrepared == 4
MaxMutations == 1
MaxPlotCalls == 3

\* ------------------------------------------------------ optional values
None == <<>>
Some(v) == <<v>>
IsNone(o) == o = <<>>
Val(o) == o[1]

\* The slots of one divergence call, in the order of the geoms tuple.
XY == 1
XX == 2
YY == 3
NumSlots == 3
Slots == 1..NumSlots

\* ------------------------------------------------------------ the inputs
\* A geometry: a cost evaluator with its own regularization epsilon.
Epsilons == {1, 2}
Costs == {1, 2}
Geometries == [epsilon : Epsilons, cost : Costs]
OptGeometries == {None} \cup {Some(g) : g \in Geometries}
Weights == {1, 2}
\* The keyword arguments forwarded to the solver.
Thresholds == {1, 2}
Kwargs == [threshold : Thresholds,
           max_iterations : 1..MaxIterations,
           inner_iterations : 1..MaxInner]
\* What prepare_divergences may hand back: a tuple of geometries.
RECURSIVE TuplesOf(_, _)
TuplesOf(S, n) ==
  IF n = 0 THEN {<<>>}
  ELSE LET shorter == TuplesOf(S, n - 1)
       IN shorter \cup {Append(t, x) : t \in {u \in shorter : Len(u) = n - 1}, x \in S}
PreparedTuples == TuplesOf({Some(g) : g \in Geometries}, MaxPrepared)

\* ------------------------------------------------------ the Sinkhorn solver
Abs(x) == IF x < 0 THEN -x ELSE x
Last(s) == s[Len(s)]

\* The marginal the potential is matched against, on the model's integer grid.
Target(geom, w) == 4 * geom.epsilon * geom.cost * w
UpdateG(geom, mb, f) == (f + Target(geom, mb)) \div 2
UpdateF(geom, ma, g) == (g + Target(geom, ma)) \div 2
\* One iteration: update g from f, then f from the new g.
OneIteration(geom, ma, mb, fg) ==
  LET g2 == UpdateG(geom, mb, fg[1])
  IN <<UpdateF(geom, ma, g2), g2>>
RECURSIVE Iterations(_, _, _, _, _)
Iterations(n, geom, ma, mb, fg) ==
  IF n = 0 THEN fg
  ELSE Iterations(n - 1, geom, ma, mb, OneIteration(geom, ma, mb, fg))
\* The marginal violation of the current potentials.
MarginalError(geom, ma, mb, fg) ==
  Abs(UpdateF(geom, ma, fg[2]) - fg[1]) + Abs(UpdateG(geom, mb, fg[1]) - fg[2])
\* The regularized cost read off the potentials (dual objective).
RegOtCost(ma, mb, fg) == 2 * (fg[1] * ma + fg[2] * mb)

\* The local state of a run that has not iterated yet: f = 0, g = 0.
InitialState(args) ==
  [args |-> args, iteration |-> 0, fg |-> <<0, 0>>, errors |-> <<>>]
\* A block of inner_iterations iterations followed by one convergence check.
Block(s) ==
  LET k == s.args.kwargs.inner_iterations
      fg2 == Iterations(k, s.args.geom, s.args.a, s.args.b, s.fg)
  IN [s EXCEPT !.iteration = s.iteration + k,
               !.fg = fg2,
               !.errors = Append(s.errors,
                                 MarginalError(s.args.geom, s.args.a, s.args.b, fg2))]
\* Stop when the error is below threshold or the iteration count reaches
\* max_iterations; both are looked at after a check only.
Converged(s) == s.errors # <<>> /\ Last(s.errors) < s.args.kwargs.threshold
Exhausted(s) == s.iteration >= s.args.kwargs.max_iterations
Continue(s) == ~Converged(s) /\ ~Exhausted(s)

\* SinkhornOutput(f, g, reg_ot_cost, errors)
SinkhornOutput(f, g, reg_ot_cost, errors) ==
  [f |-> f, g |-> g, reg_ot_cost |-> reg_ot_cost, errors |-> errors]
OutputOf(s) ==
  SinkhornOutput(Some(s.fg[1]), Some(s.fg[2]),
                 RegOtCost(s.args.a, s.args.b, s.fg), Some(s.errors))
\* A whole run, start to stop, as one function of its arguments.
RECURSIVE RunFrom(_)
RunFrom(s) == IF Continue(s) THEN RunFrom(Block(s)) ELSE s
Sinkhorn(geom, ma, mb, kw) ==
  OutputOf(RunFrom(InitialState([geom |-> geom, a |-> ma, b |-> mb, kwargs |-> kw])))

\* ------------------------------------------------------------- the state
VARIABLES
  pc,          \* "idle", "solving" (inside sinkhorn_divergence) or "returned"
  entry,       \* which function the caller called
  schedule,    \* "sequential": the comprehension's order; "parallel": any order
  prepared,    \* what prepare_divergences returned (wrapper calls), else None
  geoms,       \* the tuple (geometry_xy, geometry_xx, geometry_yy), None before the call
  a, b,        \* the marginals
  kwargs,      \* the solver's keyword arguments
  slot,        \* per slot: "pending", "running" or "done"
  sol,         \* per slot: the local state of its solver run, None when none ran
  out,         \* the list out, None where no element has been placed yet
  finished,    \* the slots in the order their elements were produced
  result,      \* the SinkhornDivergence returned, None before the return
  mutations,   \* how many operations the caller tried on the result
  raised,      \* the exception the caller's last operation raised, None if none
  PIL_is_importable,     \* plot.py's import-time flags
  IPython_is_importable,
  warned,      \* the warnings emitted, in order
  opened,      \* the files opened, in order
  saved,       \* the GIF files written
  calls        \* the plot calls made, with their outcomes

varsDiv == <<pc, entry, schedule, prepared, geoms, a, b, kwargs, slot, sol, out,
             finished, result, mutations, raised>>
varsPlot == <<PIL_is_importable, IPython_is_importable, warned, opened, saved, calls>>
vars == <<varsDiv, varsPlot>>

\* ------------------------------------------------- sinkhorn_divergence.py
\* geometries = (geometries + (None,) * max(0, 3 - len(geometries)))[:3]
Max(x, y) == IF x > y THEN x ELSE y
\* The normalisation without its [:3].
Normalise_NoTruncate(geometries) ==
  geometries \o [i \in 1..Max(0, NumSlots - Len(geometries)) |-> None]
Normalise(geometries) ==
  SubSeq(geometries \o [i \in 1..Max(0, NumSlots - Len(geometries)) |-> None],
         1, NumSlots)

\* zip(geoms, [[a, b], [a, a], [b, b]])
Marginals == << <<a, b>>, <<a, a>>, <<b, b>> >>

\* The self terms solved with the solver's defaults instead of **kwargs.
DefaultKwargs == [threshold |-> 1, max_iterations |-> MaxIterations, inner_iterations |-> 1]
SolveArgs_DefaultKwargs(i) ==
  [geom |-> Val(geoms[i]), a |-> Marginals[i][1], b |-> Marginals[i][2],
   kwargs |-> IF i = XY THEN kwargs ELSE DefaultKwargs]
\* sinkhorn.sinkhorn(geom, marginals[0], marginals[1], **kwargs)
SolveArgs(i) ==
  [geom |-> Val(geoms[i]), a |-> Marginals[i][1], b |-> Marginals[i][2],
   kwargs |-> kwargs]

\* The placeholder with zero potentials in place of None.
SkipOutput_Zeros == SinkhornOutput(Some(0), Some(0), 0, None)
\* sinkhorn.SinkhornOutput(None, None, 0, None)
SkipOutput == SinkhornOutput(None, None, 0, None)

\* Elements appended to out as their solves finish.
OutSlot_ByCompletion(i) == Len(finished) + 1
\* The position of the list out that slot i's element takes: the comprehension
\* keeps the order of geoms.
OutSlot(i) == i

\* div = out[0].reg_ot_cost - 0.5 * (out[1].reg_ot_cost + out[2].reg_ot_cost)
Half(x) == x \div 2
\* The combination without its factor 0.5.
Divergence_NoHalf(o) ==
  o[XY].reg_ot_cost - (o[XX].reg_ot_cost + o[YY].reg_ot_cost)
\* The combination with the YY term added instead of subtracted.
Divergence_SignSlip(o) ==
  o[XY].reg_ot_cost - Half(o[XX].reg_ot_cost) + Half(o[YY].reg_ot_cost)
Divergence(o) ==
  o[XY].reg_ot_cost - Half(o[XX].reg_ot_cost + o[YY].reg_ot_cost)

\* tuple([s.f, s.g] for s in out)
PotentialsOf(o) == [i \in Slots |-> <<o[i].f, o[i].g>>]
\* Only the last entry of each trace kept.
ErrorsOf_LastOnly(o) ==
  [i \in Slots |-> IF IsNone(o[i].errors) THEN None
                   ELSE Some(<<Last(Val(o[i].errors))>>)]
\* tuple(s.errors for s in out)
ErrorsOf(o) == [i \in Slots |-> o[i].errors]
\* SinkhornDivergence(div, potentials, geoms, errors)
SinkhornDivergence(div, potentials, gs, errors) ==
  [divergence |-> div, potentials |-> potentials, geoms |-> gs, errors |-> errors]

\* A direct call sinkhorn_divergence(geometry_xy, geometry_xx, geometry_yy, a, b, **kwargs).
Call_sinkhorn_divergence ==
  /\ pc = "idle"
  /\ \E gxy \in OptGeometries, gxx \in OptGeometries, gyy \in OptGeometries :
       geoms' = <<gxy, gxx, gyy>>
  /\ pc' = "solving"
  /\ entry' = "sinkhorn_divergence"
  /\ UNCHANGED <<schedule, prepared, a, b, kwargs, slot, sol, out, finished, result,
                 mutations, raised, varsPlot>>

\* sinkhorn_divergence_wrapper: prepare_divergences, the normalisation to three
\* slots, and the call sinkhorn_divergence(*geometries, a, b, **div_kwargs).
Call_sinkhorn_divergence_wrapper ==
  /\ pc = "idle"
  /\ \E geometries \in PreparedTuples :
       /\ prepared' = Some(geometries)
       /\ geoms' = Normalise(geometries)
  /\ pc' = "solving"
  /\ entry' = "sinkhorn_divergence_wrapper"
  /\ UNCHANGED <<schedule, a, b, kwargs, slot, sol, out, finished, result,
                 mutations, raised, varsPlot>>

CanRun(i) ==
  /\ pc = "solving"
  /\ slot[i] = "pending"
  /\ schedule = "sequential" => \A j \in 1..(i - 1) : slot[j] = "done"

Place(i, o) ==
  /\ out' = [out EXCEPT ![OutSlot(i)] = Some(o)]
  /\ finished' = Append(finished, i)
  /\ slot' = [slot EXCEPT ![i] = "done"]

\* geom is None: no solve, the placeholder output.
SkipSolve(i) ==
  /\ CanRun(i)
  /\ IsNone(geoms[i])
  /\ Place(i, SkipOutput)
  /\ UNCHANGED <<pc, entry, schedule, prepared, geoms, a, b, kwargs, sol, result,
                 mutations, raised, varsPlot>>

\* The call of sinkhorn.sinkhorn for slot i begins.
StartSolve(i) ==
  /\ CanRun(i)
  /\ ~IsNone(geoms[i])
  /\ sol' = [sol EXCEPT ![i] = Some(InitialState(SolveArgs(i)))]
  /\ slot' = [slot EXCEPT ![i] = "running"]
  /\ UNCHANGED <<pc, entry, schedule, prepared, geoms, a, b, kwargs, out, finished,
                 result, mutations, raised, varsPlot>>

\* One block of slot i's run.
SolveBlock(i) ==
  /\ pc = "solving"
  /\ slot[i] = "running"
  /\ Continue(Val(sol[i]))
  /\ sol' = [sol EXCEPT ![i] = Some(Block(Val(sol[i])))]
  /\ UNCHANGED <<pc, entry, schedule, prepared, geoms, a, b, kwargs, slot, out,
                 finished, result, mutations, raised, varsPlot>>

\* Slot i's run stops and its SinkhornOutput becomes an element of out.
FinishSolve(i) ==
  /\ pc = "solving"
  /\ slot[i] = "running"
  /\ ~Continue(Val(sol[i]))
  /\ Place(i, OutputOf(Val(sol[i])))
  /\ UNCHANGED <<pc, entry, schedule, prepared, geoms, a, b, kwargs, sol, result,
                 mutations, raised, varsPlot>>

\* Lines 92-94: the combination and the result.
ReturnDivergence ==
  /\ pc = "solving"
  /\ \A i \in Slots : slot[i] = "done"
  /\ LET o == [i \in Slots |-> Val(out[i])]
     IN result' = Some(SinkhornDivergence(Divergence(o), PotentialsOf(o), geoms,
                                          ErrorsOf(o)))
  /\ pc' = "returned"
  /\ UNCHANGED <<entry, schedule, prepared, geoms, a, b, kwargs, slot, sol, out,
                 finished, mutations, raised, varsPlot>>

\* ---------------------------------- what a caller can do with the result
Fields == {"divergence", "potentials", "geoms", "errors"}
CallerOp ==
  /\ pc = "returned"
  /\ mutations < MaxMutations
  /\ mutations' = mutations + 1
  /\ UNCHANGED <<pc, entry, schedule, prepared, geoms, a, b, kwargs, slot, sol, out,
                 finished, varsPlot>>

\* result.<field> = v: a namedtuple has no settable attributes.
SetField ==
  /\ CallerOp
  /\ \E fld \in Fields : raised' = Some("AttributeError")
  /\ UNCHANGED result

\* result.<field>[i] = v on one of the three tuples: tuples take no item assignment.
SetTupleItem ==
  /\ CallerOp
  /\ \E fld \in Fields \ {"divergence"}, i \in Slots : raised' = Some("TypeError")
  /\ UNCHANGED result

\* result.potentials[i][j] = v: each pair is a list [s.f, s.g], and a list takes it.
SetPairItem ==
  /\ CallerOp
  /\ \E i \in Slots, j \in 1..2, v \in {None, Some(0)} :
       result' = Some([Val(result) EXCEPT !.potentials[i][j] = v])
  /\ raised' = None

DivIdle ==
  /\ pc = "idle"
  /\ entry = "none"
  /\ prepared = None
  /\ geoms = None
  /\ a \in Weights
  /\ b \in Weights
  /\ kwargs \in Kwargs
  /\ slot = [i \in Slots |-> "pending"]
  /\ sol = [i \in Slots |-> None]
  /\ out = [i \in Slots |-> None]
  /\ finished = <<>>
  /\ result = None
  /\ mutations = 0
  /\ raised = None

PlotIdle ==
  /\ warned = <<>>
  /\ opened = <<>>
  /\ saved = {}
  /\ calls = <<>>

\* ------------------------------------------------------------ plot.py
Files == {"a.png", "b.gif"}
ImageLists == {<<>>, <<"a.png">>, <<"a.png", "a.png">>}
\* The functions the standard module warnings has: warn is one, run is not.
WarningsFunctions == {"warn", "warn_explicit", "simplefilter", "filterwarnings"}
\* warnings.<fn>(message, category): the warning emitted, or the AttributeError
\* the attribute lookup raises.
WarningsCall(fn, category) ==
  IF fn \in WarningsFunctions
  THEN [warned |-> <<category>>, raised |-> None]
  ELSE [warned |-> <<>>, raised |-> Some("AttributeError")]

PlotCall(rec) ==
  /\ Len(calls) < MaxPlotCalls
  /\ calls' = Append(calls, rec)
  /\ warned' = warned \o rec.warned
  /\ opened' = opened \o rec.opened
  /\ UNCHANGED <<PIL_is_importable, IPython_is_importable, varsDiv>>

\* animate(image_fns, gif_fn)
animate ==
  \E image_fns \in ImageLists, gif_fn \in Files :
    IF ~PIL_is_importable
    THEN LET w == WarningsCall("warn", "RuntimeWarning")
         IN /\ PlotCall([fn |-> "animate", warned |-> w.warned, opened |-> <<>>,
                         outcome |-> IF IsNone(w.raised) THEN "None" ELSE Val(w.raised)])
            /\ UNCHANGED saved
    ELSE \* images = [Image.open(fn) ...]; images[0].save(gif_fn, ...)
         /\ PlotCall([fn |-> "animate", warned |-> <<>>, opened |-> image_fns,
                      outcome |-> IF image_fns = <<>> THEN "IndexError" ELSE "None"])
         /\ saved' = IF image_fns = <<>> THEN saved ELSE saved \cup {gif_fn}

\* show_gif(gif_fn)
show_gif ==
  \E gif_fn \in Files :
    /\ IF ~IPython_is_importable
       THEN LET w == WarningsCall("run", "RuntimeWarning")
            IN PlotCall([fn |-> "show_gif", warned |-> w.warned, opened |-> <<>>,
                         outcome |-> IF IsNone(w.raised) THEN "None" ELSE Val(w.raised)])
       ELSE \* with open(gif_fn, 'rb') as f: ... return display.HTML(...)
            PlotCall([fn |-> "show_gif", warned |-> <<>>, opened |-> <<gif_fn>>,
                      outcome |-> "HTML"])
    /\ UNCHANGED saved

\* --------------------------------------------------- the specifications
\* The code as written: a call, the three solves one after the other, the return.
Init ==
  /\ DivIdle
  /\ schedule = "sequential"
  /\ PlotIdle
  /\ PIL_is_importable = TRUE
  /\ IPython_is_importable = TRUE
Next ==
  \/ Call_sinkhorn_divergence
  \/ Call_sinkhorn_divergence_wrapper
  \/ \E i \in Slots : SkipSolve(i)
  \/ \E i \in Slots : StartSolve(i)
  \/ \E i \in Slots : SolveBlock(i)
  \/ \E i \in Slots : FinishSolve(i)
  \/ ReturnDivergence
Spec == Init /\ [][Next]_vars

\* The same call followed by what its caller may try on the result.
NextCaller ==
  \/ Call_sinkhorn_divergence
  \/ Call_sinkhorn_divergence_wrapper
  \/ \E i \in Slots : SkipSolve(i)
  \/ \E i \in Slots : StartSolve(i)
  \/ \E i \in Slots : SolveBlock(i)
  \/ \E i \in Slots : FinishSolve(i)
  \/ ReturnDivergence
  \/ SetField
  \/ SetTupleItem
  \/ SetPairItem
SpecCaller == Init /\ [][NextCaller]_vars

\* A direct call whose three solves run in any order, their blocks interleaved.
InitPar ==
  /\ DivIdle
  /\ schedule = "parallel"
  /\ PlotIdle
  /\ PIL_is_importable = TRUE
  /\ IPython_is_importable = TRUE
NextPar ==
  \/ Call_sinkhorn_divergence
  \/ \E i \in Slots : SkipSolve(i)
  \/ \E i \in Slots : StartSolve(i)
  \/ \E i \in Slots : SolveBlock(i)
  \/ \E i \in Slots : FinishSolve(i)
  \/ ReturnDivergence
SpecPar == InitPar /\ [][NextPar]_vars

\* plot.py imported with or without each optional dependency, then called.
InitPlot ==
  /\ DivIdle
  /\ schedule = "sequential"
  /\ PlotIdle
  /\ PIL_is_importable \in BOOLEAN
  /\ IPython_is_importable \in BOOLEAN
NextPlot ==
  \/ animate
  \/ show_gif
SpecPlot == InitPlot /\ [][NextPlot]_vars

\* ------------------------------------------------------------- the claims
Returned == pc = "returned"
AllGeometries == \A i \in Slots : ~IsNone(geoms[i])
\* The marginals of slot i, as the docstring's OT_eps(a, b), OT_eps(a, a), OT_eps(b, b).
MargA(i) == IF i = YY THEN b ELSE a
MargB(i) == IF i = XX THEN a ELSE b
\* What slot i's element of out is when each solve is run alone, start to stop.
Reference(i) ==
  IF IsNone(geoms[i]) THEN SinkhornOutput(None, None, 0, None)
  ELSE Sinkhorn(Val(geoms[i]), MargA(i), MargB(i), kwargs)

\* C1: with three non-null geometries the returned divergence is
\* cost_xy - 0.5 * (cost_xx + cost_yy), the costs being those of the solves on
\* (geometry_xy, a, b), (geometry_xx, a, a) and (geometry_yy, b, b); stated
\* doubled, so that no halving is needed to state it.
C1_DivergenceFormula ==
  (Returned /\ AllGeometries) =>
    2 * Val(result).divergence =
      2 * Sinkhorn(Val(geoms[XY]), a, b, kwargs).reg_ot_cost
      - (Sinkhorn(Val(geoms[XX]), a, a, kwargs).reg_ot_cost
         + Sinkhorn(Val(geoms[YY]), b, b, kwargs).reg_ot_cost)
C1_Witness ==
  /\ Returned
  /\ AllGeometries
  /\ Val(result).divergence > 0
  /\ Val(out[XX]).reg_ot_cost # Val(out[YY]).reg_ot_cost
  /\ Val(out[XY]).reg_ot_cost # Val(out[XX]).reg_ot_cost

\* C2: a slot whose geometry is None runs no solve, has cost 0, the potential
\* pair [None, None] and the error trace None; the call still returns, and with
\* only XY and XX supplied the divergence is cost_xy - 0.5 * cost_xx.
C2_MissingSlot ==
  Returned =>
    /\ \A i \in Slots : IsNone(geoms[i]) =>
         /\ IsNone(sol[i])
         /\ Val(out[i]).reg_ot_cost = 0
         /\ Val(result).potentials[i] = <<None, None>>
         /\ IsNone(Val(result).errors[i])
    /\ (~IsNone(geoms[XY]) /\ ~IsNone(geoms[XX]) /\ IsNone(geoms[YY])) =>
         2 * Val(result).divergence =
           2 * Sinkhorn(Val(geoms[XY]), a, b, kwargs).reg_ot_cost
           - Sinkhorn(Val(geoms[XX]), a, a, kwargs).reg_ot_cost
C2_Witness ==
  /\ Returned
  /\ ~IsNone(geoms[XY]) /\ ~IsNone(geoms[XX]) /\ IsNone(geoms[YY])
  /\ Val(result).potentials[YY] = <<None, None>>
  /\ Val(result).divergence # 0
  /\ Val(out[XX]).reg_ot_cost > 0

\* C3: every returned result has exactly 3 potential pairs, 3 geometries and 3
\* error traces in the slot order (XY, XX, YY); through the wrapper the three
\* geometries are the first three prepare_divergences produced, padded with
\* None at the end when it produced fewer.
C3_ThreeSlots ==
  Returned =>
    LET r == Val(result)
    IN /\ Len(r.potentials) = 3
       /\ Len(r.geoms) = 3
       /\ Len(r.errors) = 3
       /\ entry = "sinkhorn_divergence_wrapper" =>
            \A i \in 1..3 :
              r.geoms[i] = IF i <= Len(Val(prepared)) THEN Val(prepared)[i] ELSE None
       /\ \A i \in 1..3 :
            /\ Len(r.potentials[i]) = 2
            /\ r.potentials[i] = <<Reference(i).f, Reference(i).g>>
            /\ r.errors[i] = Reference(i).errors
C3_Witness ==
  /\ Returned
  /\ entry = "sinkhorn_divergence_wrapper"
  /\ Len(Val(prepared)) = 4
  /\ Val(prepared)[4] # Val(prepared)[3]
  /\ Len(Val(result).geoms) = 3
C3_WitnessPadded ==
  /\ Returned
  /\ entry = "sinkhorn_divergence_wrapper"
  /\ Len(Val(prepared)) = 2
  /\ IsNone(Val(result).geoms[YY])

\* C4: the divergence of a distribution against itself (a = b and the XY, XX
\* and YY problems identical) is 0.
SelfProblem ==
  /\ a = b
  /\ ~IsNone(geoms[XY])
  /\ geoms[XX] = geoms[XY]
\* C4 as claimed: also when the YY geometry is missing (static_b).
C4_Original ==
  (Returned /\ SelfProblem /\ geoms[YY] \in {geoms[XY], None}) =>
    Val(result).divergence = 0
\* C4 as amended: 0 when all three geometries are supplied; half the cost of
\* the XX solve when the YY geometry is missing.
C4_SelfDivergenceZero ==
  /\ (Returned /\ SelfProblem /\ geoms[YY] = geoms[XY]) =>
       Val(result).divergence = 0
  /\ (Returned /\ SelfProblem /\ IsNone(geoms[YY])) =>
       2 * Val(result).divergence = Sinkhorn(Val(geoms[XX]), a, a, kwargs).reg_ot_cost
C4_Witness ==
  /\ Returned
  /\ SelfProblem
  /\ geoms[YY] = geoms[XY]
  /\ Val(out[XY]).reg_ot_cost > 0
  /\ Val(result).divergence = 0

\* C5: all the solves of one call run with the same epsilon and the same
\* keyword arguments.
Ran == {i \in Slots : ~IsNone(sol[i])}
\* C5 as claimed.
C5_Original ==
  Returned =>
    \A i \in Ran, j \in Ran :
      /\ Val(sol[i]).args.kwargs = Val(sol[j]).args.kwargs
      /\ Val(sol[i]).args.geom.epsilon = Val(sol[j]).args.geom.epsilon
\* C5 as amended: every geometry supplied is solved, each solve with the
\* keyword arguments of the call and with the epsilon of its own geometry.
C5_SameConfiguration ==
  Returned =>
    /\ \A i \in Ran :
         /\ Val(sol[i]).args.kwargs = kwargs
         /\ Val(sol[i]).args.geom.epsilon = Val(geoms[i]).epsilon
    /\ \A i \in Slots : ~IsNone(geoms[i]) => i \in Ran
C5_Witness ==
  /\ Returned
  /\ Ran = Slots
  /\ Val(geoms[XY]).epsilon # Val(geoms[XX]).epsilon
  /\ Val(sol[XY]).args.kwargs = Val(sol[YY]).args.kwargs

\* C6: a solve that reaches max_iterations without its error falling below
\* threshold still ends, the call still returns a divergence, and the errors
\* slot of that solve is its error trace unchanged, with a last entry.
NotConverged(i) ==
  /\ ~IsNone(sol[i])
  /\ Val(sol[i]).iteration >= kwargs.max_iterations
  /\ \A k \in 1..Len(Val(sol[i]).errors) : ~(Val(sol[i]).errors[k] < kwargs.threshold)
TraceKept(i) ==
  /\ Val(result).errors[i] = Some(Val(sol[i]).errors)
  /\ Val(result).potentials[i] = <<Some(Val(sol[i]).fg[1]), Some(Val(sol[i]).fg[2])>>
  /\ Val(sol[i]).errors # <<>>
C7_Immutable == [][(pc = "returned" /\ pc' = "returned") => result' = result]_vars

\* C8: the three solves are independent: in any order, their blocks interleaved
\* in any way, every partial run is a prefix of the run of that solve alone, the
\* three outputs land in their own slots, and the divergence is the sequential one.
C8_OrderIndependent ==
  /\ \A i \in Ran :
       RunFrom(Val(sol[i])) =
         RunFrom(InitialState([geom |-> Val(geoms[i]), a |-> MargA(i),
                               b |-> MargB(i), kwargs |-> kwargs]))
  /\ \A i \in Slots : slot[i] = "done" => out[i] = Some(Reference(i))
  /\ Returned =>
       /\ \A i \in Slots : Val(out[i]) = Reference(i)
       /\ \A i \in Slots :
            /\ Val(result).potentials[i] = <<Reference(i).f, Reference(i).g>>
            /\ Val(result).errors[i] = Reference(i).errors
       /\ 2 * Val(result).divergence =
            2 * Reference(XY).reg_ot_cost
            - (Reference(XX).reg_ot_cost + Reference(YY).reg_ot_cost)
C8_Witness ==
  /\ Returned
  /\ schedule = "parallel"
  /\ finished = <<YY, XY, XX>>
  /\ AllGeometries
  /\ Reference(XY) # Reference(XX)
  /\ Reference(XX) # Reference(YY)
  /\ Reference(XY) # Reference(YY)

\* C10: with its optional dependency missing, animate (Pillow) and show_gif
\* (IPython) emit a RuntimeWarning and return None, opening no file and
\* raising nothing.
Degraded(c) ==
  \/ c.fn = "animate" /\ ~PIL_is_importable
  \/ c.fn = "show_gif" /\ ~IPython_is_importable
C10_DegradeToNoOp ==
  \A k \in 1..Len(calls) : Degraded(calls[k]) =>
    /\ calls[k].outcome = "None"
    /\ calls[k].warned = <<"RuntimeWarning">>
    /\ calls[k].opened = <<>>

====
